---- MODULE Spec2Model ----
(***************************************************************************)
(* Model of the scripts of siddharthJBefree/server:                        *)
(*   scripts/1_host_os_standards.py        ("host")                        *)
(*   scripts/2_docker_daemon_standards.py  ("daemon")                      *)
(*   scripts/3_docker_network_standards.py ("network")                     *)
(*   scripts/4_folder_structure.py         ("folders", under SpecFolders)  *)
(* A behaviour is a sequence of runs of ONE of the scripts against one     *)
(* machine.  The machine (sys) and the report file persist between runs;   *)
(* everything else is per-run.                                             *)
(***************************************************************************)
EXTENDS Integers, Sequences, FiniteSets, TLC

VARIABLES
  script,   \* which of the scripts this behaviour runs
  sys,      \* the live machine: host facts, daemon.json, docker, networks
  report,   \* contents of REPORT_FILE, a sequence of lines
  mode,     \* MODE of the current run
  root,     \* os.geteuid() == 0 for the current run
  canWrite, \* REPORT_FILE can be opened for writing by the current run
  pc,       \* index of the call main() is at (0: no run in progress)
  sub,      \* index of the statement inside apply() / apply_networks()
  exit,     \* exit status of the last finished run (-1: none yet / running)
  cause,    \* why the last run ended: "none" (main returned), "usage",
            \* "privilege", "config" (the .env file of script 4), or the
            \* uncaught exception: "report" (open of the
            \* report file), "probe" (json.load, inspect_network), "action"
            \* (CalledProcessError of run)
  out,      \* "[DRY-RUN] ..." descriptions printed by the current run
  acts,     \* mutating actions executed by the current run, in order
  probes,   \* probes executed by the current run
  start,    \* what the current run found: the machine, the report file,
            \* its argument, and whether the run before it was an --apply
            \* run that ran to its end
  mine      \* the lines the current run has written to the report file

vars == <<script, sys, report, mode, root, canWrite, pc, sub, exit, cause,
          out, acts, probes, start, mine>>

----------------------------------------------------------------------------
(* Bounds of the model *)

\* Init host states differ from "nothing set up" or from "everything set up"
\* in at most this many facts.
MaxHostOff == 1
\* Init daemon.json files differ from the desired scalar settings in at most
\* this many keys.
MaxJsonOff == 1

----------------------------------------------------------------------------
(* Program constants *)

Scripts == {"host", "daemon", "network"}
ValidModes == {"--apply", "--check", "--dry-run"}
\* argv[1] values tried; "" stands for no argument at all
Args == {"", "--apply", "--check", "--dry-run", "--bogus"}

MODE(arg) == IF arg = "" THEN "--apply" ELSE arg

ExitOk == 0
PrivilegeExit == 1
UsageExit == 1
UncaughtExit == 1

ALLOWED_PORTS == <<"22", "80", "443">>

NetOrder == <<"frontend_net", "backend_net", "monitoring_net">>
NetNames == {NetOrder[i] : i \in 1..Len(NetOrder)}
NETWORKS ==
  [n \in NetNames |-> [internal |-> (n # "frontend_net")]]

----------------------------------------------------------------------------
(* Report lines: a line is the sequence of the pieces the f-string joins *)

Blank == <<>>
TitleLine(s) == <<s, " Report - ", "now">>
HeaderLines(title) == <<Blank, <<"=== ", title, " ===">>>>
\* text is itself a sequence of pieces
Status(st, text) == <<"[", st, "] ">> \o text
Raw(text) == <<text>>
PyBool(b) == IF b THEN "True" ELSE "False"

ReportTitle(s) ==
  CASE s = "host" -> TitleLine("Compliance")
    [] s = "daemon" -> TitleLine("Docker Daemon Compliance")
    [] s = "network" -> TitleLine("Docker Network Compliance")

----------------------------------------------------------------------------
(* Sequence helpers *)

Range(s) == {s[i] : i \in 1..Len(s)}

\* an executed mutating action: the command, what the probe guarding it had
\* found ("none": no probe guards it), and whether it succeeded
Act(c, v, k) == [cmd |-> c, probed |-> v, ok |-> k]

RECURSIVE Flatten(_)
Flatten(ss) == IF ss = <<>> THEN <<>> ELSE Head(ss) \o Flatten(Tail(ss))

----------------------------------------------------------------------------
(* Running containers (what `docker ps -q` and `docker inspect` show) *)

ContainerOrder == <<"traefik", "app">>
ContainerNames == Range(ContainerOrder)
Container(c) ==
  IF c = "traefik"
  THEN [privileged |-> FALSE, mounts |-> <<"/var/run/docker.sock">>,
        networks |-> <<"frontend_net">>]
  ELSE [privileged |-> TRUE, mounts |-> <<"/">>,
        networks |-> <<"frontend_net", "bridge">>]

\* `docker ps -q` prints nothing when the daemon is not reachable
DockerPs(s) ==
  IF s.dockerUp THEN SelectSeq(ContainerOrder, LAMBDA c : c \in s.running)
  ELSE <<>>

----------------------------------------------------------------------------
(* main(): the calls it makes, in order, per script and MODE *)

\* the bug of calling apply() in every mode of the host script
MainSteps_ApplyInCheck(s, m) ==
  CASE s = "host" -> <<"usage", "open_report", "apply", "audit">>
    [] s = "daemon" ->
         <<"usage", "require_root", "open_report">>
         \o (IF m = "--apply" THEN <<"apply_daemon_config">> ELSE <<>>)
         \o <<"audit_daemon_config", "audit_running_containers",
              "audit_root_docker_access">>
    [] s = "network" ->
         <<"usage", "require_root", "open_report">>
         \o (IF m = "--apply" THEN <<"apply_networks">>
             ELSE <<"network_check">>)
         \o <<"audit_container_networks">>

\* the bug of the daemon script forgetting its require_root() call
MainSteps_NoRequireRoot(s, m) ==
  CASE s = "host" ->
         <<"usage", "open_report">>
         \o (IF m = "--check" THEN <<"audit">> ELSE <<"apply", "audit">>)
    [] s = "daemon" ->
         <<"usage", "open_report">>
         \o (IF m = "--apply" THEN <<"apply_daemon_config">> ELSE <<>>)
         \o <<"audit_daemon_config", "audit_running_containers",
              "audit_root_docker_access">>
    [] s = "network" ->
         <<"usage", "require_root", "open_report">>
         \o (IF m = "--apply" THEN <<"apply_networks">>
             ELSE <<"network_check">>)
         \o <<"audit_container_networks">>

\* the bug of the host script opening its report before it looks at MODE
MainSteps_OpenBeforeUsage(s, m) ==
  CASE s = "host" ->
         <<"open_report", "usage">>
         \o (IF m = "--check" THEN <<"audit">> ELSE <<"apply", "audit">>)
    [] s = "daemon" ->
         <<"usage", "require_root", "open_report">>
         \o (IF m = "--apply" THEN <<"apply_daemon_config">> ELSE <<>>)
         \o <<"audit_daemon_config", "audit_running_containers",
              "audit_root_docker_access">>
    [] s = "network" ->
         <<"usage", "require_root", "open_report">>
         \o (IF m = "--apply" THEN <<"apply_networks">>
             ELSE <<"network_check">>)
         \o <<"audit_container_networks">>

MainSteps(s, m) ==
  CASE s = "host" ->
         <<"usage", "open_report">>
         \o (IF m = "--check" THEN <<"audit">> ELSE <<"apply", "audit">>)
    [] s = "daemon" ->
         <<"usage", "require_root", "open_report">>
         \o (IF m = "--apply" THEN <<"apply_daemon_config">> ELSE <<>>)
         \o <<"audit_daemon_config", "audit_running_containers",
              "audit_root_docker_access">>
    [] s = "network" ->
         <<"usage", "require_root", "open_report">>
         \o (IF m = "--apply" THEN <<"apply_networks">>
             ELSE <<"network_check">>)
         \o <<"audit_container_networks">>

Cur == IF pc = 0 THEN "none" ELSE MainSteps(script, mode)[pc]

\* the run leaves main() with this status
Finish(status, why) ==
  /\ pc' = 0
  /\ sub' = 0
  /\ exit' = status
  /\ cause' = why

\* the current call returned: main() goes on to its next call, or returns
Advance ==
  IF pc = Len(MainSteps(script, mode))
  THEN Finish(ExitOk, "none")
  ELSE /\ pc' = pc + 1
       /\ sub' = 0
       /\ UNCHANGED <<exit, cause>>

\* an uncaught Python exception ends the run with a traceback
Raise(what) == Finish(UncaughtExit, what)

\* a new invocation of the script
StartRun ==
  /\ pc = 0
  /\ \E arg \in Args, r \in BOOLEAN, w \in BOOLEAN :
       /\ (r => w)
       /\ mode' = MODE(arg)
       /\ root' = r
       /\ canWrite' = w
       /\ start' = [sys |-> sys, report |-> report, arg |-> arg,
                    prevApplied |-> (exit = ExitOk /\ mode = "--apply")]
  /\ pc' = 1
  /\ sub' = 0
  /\ exit' = -1
  /\ cause' = "none"
  /\ out' = <<>>
  /\ acts' = <<>>
  /\ probes' = {}
  /\ mine' = <<>>
  /\ UNCHANGED <<script, sys, report>>

MainUsage ==
  /\ Cur = "usage"
  /\ IF mode \notin ValidModes
     THEN Finish(UsageExit, "usage")
     ELSE Advance
  /\ UNCHANGED <<script, sys, report, mine, mode, root, canWrite, out, acts,
                 probes, start>>

RequireRoot ==
  /\ Cur = "require_root"
  /\ IF ~root
     THEN Finish(PrivilegeExit, "privilege")
     ELSE Advance
  /\ UNCHANGED <<script, sys, report, mine, mode, root, canWrite, out, acts,
                 probes, start>>

\* report(line) was called for these lines, or the lines were written to
\* the report file in another way: the run has written them
Recorded ==
  mine' = mine \o SubSeq(report', Len(report) + 1, Len(report'))

\* the bug of opening the report file in append mode
OpenWrite_Append(old, title) == Append(old, title)

\* the file after open(REPORT_FILE, "w") and f.write(title)
OpenWrite(old, title) == <<title>>

\* with open(REPORT_FILE, "w") as f: f.write(title)
MainOpenReport ==
  /\ Cur = "open_report"
  /\ IF canWrite
     THEN /\ report' = OpenWrite(report, ReportTitle(script))
          /\ mine' = <<ReportTitle(script)>>
          /\ Advance
     ELSE /\ Raise("report")
          /\ UNCHANGED <<report, mine>>
  /\ UNCHANGED <<script, sys, mode, root, canWrite, out, acts, probes, start>>

----------------------------------------------------------------------------
(* 3_docker_network_standards.py *)

\* exists(f"docker network inspect {name}"): return code 0
network_exists(s, name) == s.dockerUp /\ s.nets[name] # "absent"

\* what the probe would say if it told a failure from an absence
NetVerdict(s, name) ==
  IF ~s.dockerUp THEN "Unknown"
  ELSE IF s.nets[name] = "absent" THEN "NonCompliant" ELSE "Compliant"

\* json.loads(output)[0] raises on "" (no daemon) and on "[]" (no network)
InspectRaises(s, name) == ~network_exists(s, name)
InspectInternal(s, name) == s.nets[name] = "internal"

\* the bug of creating every network with --internal
CreateCmd_AlwaysInternal(name) ==
  <<"docker network create ", "--internal ", name>>

CreateCmd(name) ==
  <<"docker network create ",
    IF NETWORKS[name].internal THEN "--internal " ELSE "", name>>

\* the shell command of run(): creates the network unless docker refuses
Created(s, name, ok) ==
  IF s.dockerUp /\ ok /\ s.nets[name] = "absent"
  THEN [s EXCEPT !.nets[name] =
          IF NETWORKS[name].internal THEN "internal" ELSE "external"]
  ELSE s

InspectProbe(name) == <<"docker network inspect ", name>>

ApplyNetworksHeader ==
  /\ Cur = "apply_networks"
  /\ sub = 0
  /\ report' = report \o HeaderLines("NETWORK CREATION & VALIDATION")
  /\ sub' = 1
  /\ UNCHANGED <<script, sys, mode, root, canWrite, pc, exit, cause, out,
                 acts, probes, start>>
  /\ Recorded

\* one iteration of the loop of apply_networks()
ApplyNetworksIter ==
  /\ Cur = "apply_networks"
  /\ sub \in 1..Len(NetOrder)
  /\ LET name == NetOrder[sub]
         missing == ~network_exists(sys, name)
         dry == mode = "--dry-run"
     IN \E ok \in BOOLEAN :
          LET after == IF missing /\ ~dry THEN Created(sys, name, ok) ELSE sys
              first == IF missing
                       THEN <<Status("INFO", <<"Network missing, creating: ", name>>),
                              Status("OK", <<"Network created: ", name>>)>>
                       ELSE <<Status("OK", <<"Network exists: ", name>>)>>
              actual == InspectInternal(after, name)
              internalLine ==
                IF actual = NETWORKS[name].internal
                THEN Status("PASS", <<name, " internal=", PyBool(actual)>>)
                ELSE Status("FAIL", <<name, " internal=", PyBool(actual),
                                      " (expected ",
                                      PyBool(NETWORKS[name].internal), ")">>)
          IN /\ (ok \/ (missing /\ ~dry /\ sys.dockerUp))
             /\ sys' = after
             /\ probes' = probes \cup {InspectProbe(name)}
             /\ acts' = IF missing /\ ~dry
                        THEN Append(acts, Act(CreateCmd(name),
                                              NetVerdict(sys, name),
                                              sys.dockerUp /\ ok))
                        ELSE acts
             /\ out' = IF missing /\ dry
                       THEN Append(out, CreateCmd(name))
                       ELSE out
             /\ IF InspectRaises(after, name)
                THEN /\ report' = report \o first
                     /\ Raise("probe")
                ELSE /\ report' = report \o first \o <<internalLine>>
                     /\ IF sub = Len(NetOrder)
                        THEN Advance
                        ELSE /\ sub' = sub + 1
                             /\ UNCHANGED <<pc, exit, cause>>
  /\ UNCHANGED <<script, mode, root, canWrite, start>>
  /\ Recorded

\* the else branch of main(): audit of the declared networks
CheckLine(s, name) ==
  IF ~network_exists(s, name)
  THEN Status("FAIL", <<"Missing network: ", name>>)
  ELSE Status(IF InspectInternal(s, name) = NETWORKS[name].internal
              THEN "PASS" ELSE "FAIL",
              <<name, " internal=", PyBool(InspectInternal(s, name))>>)

NetworkCheck ==
  /\ Cur = "network_check"
  /\ report' = report \o HeaderLines("NETWORK CONFIGURATION CHECK")
                 \o [i \in 1..Len(NetOrder) |-> CheckLine(sys, NetOrder[i])]
  /\ probes' = probes \cup {InspectProbe(n) : n \in NetNames}
  /\ Advance
  /\ UNCHANGED <<script, sys, mode, root, canWrite, out, acts, start>>
  /\ Recorded

Proxies == {"traefik", "nginx", "caddy"}

ContainerNetLines(c) ==
  LET nws == Container(c).networks
  IN (IF Len(nws) = 0
      THEN <<Status("WARN", <<"Container '", c, "' has no network attached">>)>>
      ELSE <<>>)
     \o (IF Len(nws) > 1
         THEN <<Status("WARN", <<"Container '", c,
                                 "' attached to multiple networks: ">> \o nws)>>
         ELSE <<>>)
     \o [i \in 1..Len(SelectSeq(nws, LAMBDA n : n \notin NetNames)) |->
           Status("WARN", <<"Container '", c, "' uses unmanaged network: ",
                            SelectSeq(nws, LAMBDA n : n \notin NetNames)[i]>>)]
     \o (IF "frontend_net" \in Range(nws) /\ c \notin Proxies
         THEN <<Status("WARN", <<"Non-proxy container attached to frontend_net: ", c>>)>>
         ELSE <<>>)

AuditContainerNetworks ==
  /\ Cur = "audit_container_networks"
  /\ LET cs == DockerPs(sys)
     IN report' = report \o HeaderLines("CONTAINER NETWORK AUDIT")
          \o (IF cs = <<>>
              THEN <<Status("OK", <<"No running containers detected">>)>>
              ELSE Flatten([i \in 1..Len(cs) |-> ContainerNetLines(cs[i])]))
  /\ probes' = probes \cup {<<"docker ps -q">>}
                 \cup {<<"docker inspect ", c>> : c \in Range(DockerPs(sys))}
  /\ Advance
  /\ UNCHANGED <<script, sys, mode, root, canWrite, out, acts, start>>
  /\ Recorded

----------------------------------------------------------------------------
(* 2_docker_daemon_standards.py *)

\* JSON values: a scalar is its text, a dict is a function from keys to text
EmptyDict == [k \in {} |-> ""]
Scalar(v) == [s |-> v, d |-> EmptyDict]
Dict(f) == [s |-> "dict", d |-> f]
None == Scalar("None")

DesiredOrder == <<"userns-remap", "icc", "live-restore", "no-new-privileges",
                  "log-driver", "log-opts">>
DesiredKeys == Range(DesiredOrder)
DESIRED_DAEMON_CONFIG ==
  [k \in DesiredKeys |->
     CASE k = "userns-remap" -> Scalar("default")
       [] k = "icc" -> Scalar("False")
       [] k = "live-restore" -> Scalar("True")
       [] k = "no-new-privileges" -> Scalar("True")
       [] k = "log-driver" -> Scalar("json-file")
       [] k = "log-opts" ->
            Dict([o \in {"max-size", "max-file"} |->
                    IF o = "max-size" THEN "10m" ELSE "3"])]

\* dict.get(key)
PyGet(current, key) == IF key \in DOMAIN current THEN current[key] ELSE None

\* Path(DAEMON_JSON).exists() and json.load(f)
LoadRaises(s) == s.json.st = "malformed"
load_current_daemon_config(s) ==
  IF s.json.st = "ok" THEN s.json.cfg ELSE EmptyDict

daemon_config_compliant(current) ==
  \A key \in DesiredKeys : PyGet(current, key) = DESIRED_DAEMON_CONFIG[key]

\* the bug of merging with setdefault: a key the file has keeps its value
Updated_KeepCurrent(current) ==
  [k \in DOMAIN current \cup DesiredKeys |->
     IF k \in DOMAIN current THEN current[k] ELSE DESIRED_DAEMON_CONFIG[k]]

\* updated = current.copy(); updated.update(DESIRED_DAEMON_CONFIG)
Updated(current) ==
  [k \in DOMAIN current \cup DesiredKeys |->
     IF k \in DesiredKeys THEN DESIRED_DAEMON_CONFIG[k] ELSE current[k]]

\* the branch of apply_daemon_config(): current != updated
NeedsUpdate(current) == current # Updated(current)

\* with open(DAEMON_JSON, "w") as f: json.dump(updated, f, indent=2)
DaemonJsonWrite == <<"write ", "/etc/docker/daemon.json">>

\* run("systemctl restart docker")
DockerRestart == <<"systemctl restart docker">>

\* the two lines apply_daemon_config() ends with
AppliedLine == Status("OK", <<"Docker daemon configuration applied">>)
CompliantLine ==
  Status("OK", <<"Docker daemon configuration already compliant">>)

ApplyDaemonConfig ==
  /\ Cur = "apply_daemon_config"
  /\ LET dry == mode = "--dry-run"
         head == HeaderLines("APPLYING DOCKER DAEMON CONFIGURATION")
         mk == IF sys.etcDocker THEN <<>>
               ELSE <<Act(<<"mkdir ", "/etc/docker">>, "NonCompliant", TRUE)>>
         current == load_current_daemon_config(sys)
         info == Status("INFO", <<"Docker daemon configuration requires update">>)
         wr == IF dry THEN <<>>
               ELSE <<Act(DaemonJsonWrite, "NonCompliant", TRUE)>>
         rs(ok) == IF dry THEN <<>>
                   ELSE <<Act(DockerRestart, "NonCompliant", ok)>>
         written == IF dry THEN sys.json
                    ELSE [st |-> "ok", cfg |-> Updated(current)]
     IN /\ probes' = probes \cup {<<"read ", "/etc/docker/daemon.json">>}
        /\ IF LoadRaises(sys)
           THEN /\ report' = report \o head
                /\ sys' = [sys EXCEPT !.etcDocker = TRUE]
                /\ acts' = acts \o mk
                /\ out' = out
                /\ Raise("probe")
           ELSE IF NeedsUpdate(current)
           THEN \E ok \in BOOLEAN :
                  /\ (dry => ok)
                  /\ acts' = acts \o mk \o wr \o rs(ok)
                  /\ out' = IF dry THEN Append(out, DockerRestart)
                            ELSE out
                  /\ IF ok
                     THEN /\ report' = report \o head \o <<info, AppliedLine>>
                          /\ sys' = [sys EXCEPT !.etcDocker = TRUE,
                                                !.json = written,
                                                !.dockerUp = IF dry THEN @ ELSE TRUE,
                                                !.stale = IF dry THEN @ ELSE FALSE]
                          /\ Advance
                     ELSE /\ report' = report \o head \o <<info>>
                          /\ sys' = [sys EXCEPT !.etcDocker = TRUE,
                                                !.json = written,
                                                !.dockerUp = FALSE,
                                                !.running = {},
                                                !.stale = TRUE]
                          /\ Raise("action")
           ELSE /\ report' = report \o head \o <<CompliantLine>>
                /\ sys' = [sys EXCEPT !.etcDocker = TRUE]
                /\ acts' = acts \o mk
                /\ out' = out
                /\ Advance
  /\ UNCHANGED <<script, mode, root, canWrite, start>>
  /\ Recorded

AuditDaemonConfig ==
  /\ Cur = "audit_daemon_config"
  /\ LET head == HeaderLines("DAEMON CONFIGURATION AUDIT")
         current == load_current_daemon_config(sys)
     IN IF LoadRaises(sys)
        THEN /\ report' = report \o head
             /\ Raise("probe")
        ELSE /\ report' = report \o head \o
                  [i \in 1..Len(DesiredOrder) |->
                     Status(IF PyGet(current, DesiredOrder[i])
                                 = DESIRED_DAEMON_CONFIG[DesiredOrder[i]]
                            THEN "PASS" ELSE "FAIL",
                            <<DesiredOrder[i]>>)]
             /\ Advance
  /\ probes' = probes \cup {<<"read ", "/etc/docker/daemon.json">>}
  /\ UNCHANGED <<script, sys, mode, root, canWrite, out, acts, start>>
  /\ Recorded

DangerousMounts == {"/", "/var/run/docker.sock"}

ContainerAuditLines(c) ==
  (IF Container(c).privileged
   THEN <<Status("FAIL", <<"Privileged container: ", c>>)>>
   ELSE <<>>)
  \o [i \in 1..Len(SelectSeq(Container(c).mounts,
                             LAMBDA m : m \in DangerousMounts)) |->
        Status("FAIL", <<"Dangerous mount in ", c, ": ",
                         SelectSeq(Container(c).mounts,
                                   LAMBDA m : m \in DangerousMounts)[i]>>)]

AuditRunningContainers ==
  /\ Cur = "audit_running_containers"
  /\ LET cs == DockerPs(sys)
     IN report' = report \o HeaderLines("RUNNING CONTAINER AUDIT")
          \o (IF ~sys.dockerUp
              THEN <<Status("WARN", <<"Docker not running or not accessible">>)>>
              ELSE IF cs = <<>>
              THEN <<Status("OK", <<"No running containers detected">>)>>
              ELSE Flatten([i \in 1..Len(cs) |-> ContainerAuditLines(cs[i])]))
  /\ probes' = probes \cup {<<"docker ps">>}
                 \cup {<<"docker inspect ", c>> : c \in Range(DockerPs(sys))}
  /\ Advance
  /\ UNCHANGED <<script, sys, mode, root, canWrite, out, acts, start>>
  /\ Recorded

AuditRootDockerAccess ==
  /\ Cur = "audit_root_docker_access"
  /\ report' = report \o HeaderLines("ROOT DOCKER ACCESS AUDIT")
       \o (IF sys.dockerUp
           THEN <<Status("WARN", <<"Docker CLI usable as root">>),
                  Raw("       Recommendation: restrict docker.sock via group")>>
           ELSE <<Status("OK", <<"Docker CLI not usable as root">>)>>)
  /\ probes' = probes \cup {<<"docker ps">>}
  /\ Advance
  /\ UNCHANGED <<script, sys, mode, root, canWrite, out, acts, start>>
  /\ Recorded

----------------------------------------------------------------------------
(* 1_host_os_standards.py *)

SUBUID == "/etc/subuid"
SUBGID == "/etc/subgid"
JOURNALD == "/etc/systemd/journald.conf"
ManagedFiles == {SUBUID, SUBGID, JOURNALD}
\* the line append_if_missing() manages in each file
ManagedLine(path) ==
  IF path = JOURNALD THEN "Storage=persistent" ELSE "dockremap:100000:65536"

\* facts of the host other than the contents of the managed files
HostFacts == {"group", "user", "member", "remap", "override_dir",
              "override_conf", "root_locked", "auto_updates", "ufw_installed",
              "ufw_active", "fail2ban"}

GROUPADD == "getent group doc_group || groupadd doc_group"
USERADD == "id doc_user || useradd -m -s /bin/bash doc_user"
USERMOD == "usermod -aG doc_group doc_user"
ADDUSER == "adduser --system --no-create-home --group dockremap"
REEXEC == "systemctl daemon-reexec"
PASSWD == "passwd -l root"
APT == "apt update && apt install -y ufw fail2ban unattended-upgrades rsyslog logrotate"
UFW_DENY == "ufw default deny incoming"
UFW_ALLOW_OUT == "ufw default allow outgoing"
UFW_ENABLE == "ufw --force enable"
FAIL2BAN == "systemctl enable --now fail2ban"
RESTART_JOURNALD == "systemctl restart systemd-journald"

Stmt(o, a) == [op |-> o, arg |-> a]

\* the bug of apply() recording its header before it checks for root
HostApplySteps_HeaderFirst ==
  <<Stmt("header", <<"APPLYING STANDARDS">>),
    Stmt("is_root", <<>>),
    Stmt("run", <<GROUPADD>>),
    Stmt("run", <<USERADD>>),
    Stmt("run", <<USERMOD>>),
    Stmt("remap_user", <<ADDUSER>>),
    Stmt("append_if_missing", <<SUBUID>>),
    Stmt("append_if_missing", <<SUBGID>>),
    Stmt("mkdir", <<"/etc/systemd/system/docker.service.d">>),
    Stmt("write_override", <<"/etc/systemd/system/docker.service.d/override.conf">>),
    Stmt("run", <<REEXEC>>),
    Stmt("run", <<PASSWD>>),
    Stmt("run", <<APT>>),
    Stmt("run", <<UFW_DENY>>),
    Stmt("run", <<UFW_ALLOW_OUT>>)>>
  \o [i \in 1..Len(ALLOWED_PORTS) |-> Stmt("run", <<"ufw allow ", ALLOWED_PORTS[i]>>)]
  \o <<Stmt("ufw_enable", <<UFW_ENABLE>>),
       Stmt("run", <<FAIL2BAN>>),
       Stmt("append_if_missing", <<JOURNALD>>),
       Stmt("run", <<RESTART_JOURNALD>>),
       Stmt("report", <<"APPLY COMPLETE">>)>>

\* the bug of enabling the firewall without looking at its status
HostApplySteps_UfwAlways ==
  <<Stmt("is_root", <<>>),
    Stmt("header", <<"APPLYING STANDARDS">>),
    Stmt("run", <<GROUPADD>>),
    Stmt("run", <<USERADD>>),
    Stmt("run", <<USERMOD>>),
    Stmt("remap_user", <<ADDUSER>>),
    Stmt("append_if_missing", <<SUBUID>>),
    Stmt("append_if_missing", <<SUBGID>>),
    Stmt("mkdir", <<"/etc/systemd/system/docker.service.d">>),
    Stmt("write_override", <<"/etc/systemd/system/docker.service.d/override.conf">>),
    Stmt("run", <<REEXEC>>),
    Stmt("run", <<PASSWD>>),
    Stmt("run", <<APT>>),
    Stmt("run", <<UFW_DENY>>),
    Stmt("run", <<UFW_ALLOW_OUT>>)>>
  \o [i \in 1..Len(ALLOWED_PORTS) |-> Stmt("run", <<"ufw allow ", ALLOWED_PORTS[i]>>)]
  \o <<Stmt("run", <<UFW_ENABLE>>),
       Stmt("run", <<FAIL2BAN>>),
       Stmt("append_if_missing", <<JOURNALD>>),
       Stmt("run", <<RESTART_JOURNALD>>),
       Stmt("report", <<"APPLY COMPLETE">>)>>

\* the statements of apply(), in order
HostApplySteps ==
  <<Stmt("is_root", <<>>),
    Stmt("header", <<"APPLYING STANDARDS">>),
    Stmt("run", <<GROUPADD>>),
    Stmt("run", <<USERADD>>),
    Stmt("run", <<USERMOD>>),
    Stmt("remap_user", <<ADDUSER>>),
    Stmt("append_if_missing", <<SUBUID>>),
    Stmt("append_if_missing", <<SUBGID>>),
    Stmt("mkdir", <<"/etc/systemd/system/docker.service.d">>),
    Stmt("write_override", <<"/etc/systemd/system/docker.service.d/override.conf">>),
    Stmt("run", <<REEXEC>>),
    Stmt("run", <<PASSWD>>),
    Stmt("run", <<APT>>),
    Stmt("run", <<UFW_DENY>>),
    Stmt("run", <<UFW_ALLOW_OUT>>)>>
  \o [i \in 1..Len(ALLOWED_PORTS) |-> Stmt("run", <<"ufw allow ", ALLOWED_PORTS[i]>>)]
  \o <<Stmt("ufw_enable", <<UFW_ENABLE>>),
       Stmt("run", <<FAIL2BAN>>),
       Stmt("append_if_missing", <<JOURNALD>>),
       Stmt("run", <<RESTART_JOURNALD>>),
       Stmt("report", <<"APPLY COMPLETE">>)>>

HostStmt ==
  IF Cur = "apply" /\ sub < Len(HostApplySteps)
  THEN HostApplySteps[sub + 1]
  ELSE Stmt("none", <<>>)

\* apply() goes on to its next statement, or returns to main()
HostNext ==
  IF sub + 1 = Len(HostApplySteps)
  THEN Advance
  ELSE /\ sub' = sub + 1
       /\ UNCHANGED <<pc, exit, cause>>

\* does the shell command get as far as its mutating program?
ShellMutates(cmd, h) ==
  CASE cmd = <<GROUPADD>> -> "group" \notin h
    [] cmd = <<USERADD>> -> "user" \notin h
    [] OTHER -> TRUE

\* the probe that guards the mutating program, if any
ShellProbed(cmd) ==
  IF cmd \in {<<GROUPADD>>, <<USERADD>>} THEN "NonCompliant" ELSE "none"

\* the host facts after the command succeeded
ShellEffect(cmd, h) ==
  CASE cmd = <<GROUPADD>> -> h \cup {"group"}
    [] cmd = <<USERADD>> -> h \cup {"user"}
    [] cmd = <<USERMOD>> -> h \cup {"member"}
    [] cmd = <<ADDUSER>> -> h \cup {"remap"}
    [] cmd = <<PASSWD>> -> h \cup {"root_locked"}
    [] cmd = <<APT>> -> h \cup {"auto_updates", "ufw_installed"}
    [] cmd = <<UFW_ENABLE>> -> h \cup {"ufw_active"}
    [] cmd = <<FAIL2BAN>> -> h \cup {"fail2ban"}
    [] OTHER -> h

\* run(cmd), called with `guarded` = the outcome of the Python-side probe
\* that let it be called ("none" when the call is unconditional)
Run(cmd, guarded) ==
  IF mode = "--dry-run"
  THEN /\ out' = Append(out, cmd)
       /\ UNCHANGED <<sys, acts>>
       /\ HostNext
  ELSE IF ~ShellMutates(cmd, sys.host)
  THEN /\ UNCHANGED <<sys, acts, out>>
       /\ HostNext
  ELSE \E ok \in BOOLEAN :
         /\ acts' = Append(acts, Act(cmd, IF guarded = "none"
                                          THEN ShellProbed(cmd) ELSE guarded,
                                     ok))
         /\ out' = out
         /\ IF ok
            THEN /\ sys' = [sys EXCEPT !.host = ShellEffect(cmd, @)]
                 /\ HostNext
            ELSE /\ sys' = sys
                 /\ Raise("action")

HostIsRoot ==
  /\ HostStmt.op = "is_root"
  /\ IF ~root
     THEN Finish(PrivilegeExit, "privilege")
     ELSE HostNext
  /\ UNCHANGED <<script, sys, report, mine, mode, root, canWrite, out, acts,
                 probes, start>>

HostHeader ==
  /\ HostStmt.op = "header"
  /\ report' = report \o HeaderLines(HostStmt.arg[1])
  /\ HostNext
  /\ UNCHANGED <<script, sys, mode, root, canWrite, out, acts, probes, start>>
  /\ Recorded

HostRun ==
  /\ HostStmt.op = "run"
  /\ Run(HostStmt.arg, "none")
  /\ UNCHANGED <<script, report, mine, mode, root, canWrite, probes, start>>

\* if not exists("id dockremap"): run(adduser ...)
HostRemapUser ==
  /\ HostStmt.op = "remap_user"
  /\ probes' = probes \cup {<<"id dockremap">>}
  /\ IF "remap" \notin sys.host
     THEN Run(HostStmt.arg, "NonCompliant")
     ELSE /\ HostNext
          /\ UNCHANGED <<sys, acts, out>>
  /\ UNCHANGED <<script, report, mine, mode, root, canWrite, start>>

file_contains(s, path) == s.files[path] > 0

\* the bug of appending without looking at the file
append_if_missing_Always(path) ==
  IF mode = "--dry-run"
  THEN /\ out' = Append(out, <<"Append '", ManagedLine(path), "' to ", path>>)
       /\ UNCHANGED <<sys, acts>>
  ELSE /\ sys' = [sys EXCEPT !.files[path] = @ + 1]
       /\ acts' = Append(acts, Act(<<"append ", path>>, "NonCompliant", TRUE))
       /\ out' = out

append_if_missing(path) ==
  IF ~file_contains(sys, path)
  THEN IF mode = "--dry-run"
       THEN /\ out' = Append(out, <<"Append '", ManagedLine(path), "' to ", path>>)
            /\ UNCHANGED <<sys, acts>>
       ELSE /\ sys' = [sys EXCEPT !.files[path] = @ + 1]
            /\ acts' = Append(acts, Act(<<"append ", path>>, "NonCompliant", TRUE))
            /\ out' = out
  ELSE UNCHANGED <<sys, acts, out>>

HostAppendIfMissing ==
  /\ HostStmt.op = "append_if_missing"
  /\ probes' = probes \cup {<<"read ", HostStmt.arg[1]>>}
  /\ append_if_missing(HostStmt.arg[1])
  /\ HostNext
  /\ UNCHANGED <<script, report, mine, mode, root, canWrite, start>>

\* Path(os.path.dirname(override)).mkdir(parents=True, exist_ok=True):
\* creates the directory only where there is none
HostMkdir ==
  /\ HostStmt.op = "mkdir"
  /\ IF "override_dir" \in sys.host
     THEN UNCHANGED <<sys, acts>>
     ELSE /\ sys' = [sys EXCEPT !.host = @ \cup {"override_dir"}]
          /\ acts' = Append(acts, Act(<<"mkdir ", HostStmt.arg[1]>>,
                                      "NonCompliant", TRUE))
  /\ HostNext
  /\ UNCHANGED <<script, report, mine, mode, root, canWrite, out, probes, start>>

\* if MODE != "--dry-run": Path(override).write_text(...)
HostWriteOverride ==
  /\ HostStmt.op = "write_override"
  /\ IF mode # "--dry-run"
     THEN /\ sys' = [sys EXCEPT !.host = @ \cup {"override_conf"}]
          /\ acts' = Append(acts, Act(<<"write ", HostStmt.arg[1]>>, "none", TRUE))
     ELSE UNCHANGED <<sys, acts>>
  /\ HostNext
  /\ UNCHANGED <<script, report, mine, mode, root, canWrite, out, probes, start>>

\* exists("passwd -S root | grep L"): passwd shows the status of root ("L"
\* for a locked password) to root only
RootLockedProbe == <<"passwd -S root | grep L">>
root_locked(s) == root /\ "root_locked" \in s.host

\* exists("ufw status | grep -q active"): ufw, where installed, answers root
\* with "Status: active" or "Status: inactive", and grep finds "active" in
\* both; without ufw, or without root, there is no such line
UfwProbe == <<"ufw status | grep -q active">>
ufw_status_active(s) == root /\ "ufw_installed" \in s.host

\* if not exists("ufw status | grep -q active"): run("ufw --force enable")
HostUfwEnable ==
  /\ HostStmt.op = "ufw_enable"
  /\ probes' = probes \cup {UfwProbe}
  /\ IF ~ufw_status_active(sys)
     THEN Run(HostStmt.arg, "NonCompliant")
     ELSE /\ HostNext
          /\ UNCHANGED <<sys, acts, out>>
  /\ UNCHANGED <<script, report, mine, mode, root, canWrite, start>>

HostApplyComplete ==
  /\ HostStmt.op = "report"
  /\ report' = Append(report, Raw(HostStmt.arg[1]))
  /\ HostNext
  /\ UNCHANGED <<script, sys, mode, root, canWrite, out, acts, probes, start>>
  /\ Recorded

\* the checks of audit(), in the order of the dict: item, probe, result
HostChecks(s) ==
  <<[item |-> "Docker user exists", probe |-> <<"id doc_user">>,
     ok |-> "user" \in s.host],
    [item |-> "Docker group exists", probe |-> <<"getent group doc_group">>,
     ok |-> "group" \in s.host],
    [item |-> "Remap user (dockremap) exists", probe |-> <<"id dockremap">>,
     ok |-> "remap" \in s.host],
    [item |-> "Subuid configured", probe |-> <<"read ", SUBUID>>,
     ok |-> file_contains(s, SUBUID)],
    [item |-> "Subgid configured", probe |-> <<"read ", SUBGID>>,
     ok |-> file_contains(s, SUBGID)],
    [item |-> "Root login disabled", probe |-> RootLockedProbe,
     ok |-> root_locked(s)],
    [item |-> "Firewall enabled", probe |-> UfwProbe,
     ok |-> ufw_status_active(s)],
    [item |-> "Fail2ban running", probe |-> <<"systemctl is-active fail2ban">>,
     ok |-> "fail2ban" \in s.host],
    [item |-> "Auto updates enabled",
     probe |-> <<"systemctl is-enabled unattended-upgrades">>,
     ok |-> "auto_updates" \in s.host]>>

HostAudit ==
  /\ Cur = "audit"
  /\ report' = report \o HeaderLines("AUDIT RESULTS")
       \o [i \in 1..Len(HostChecks(sys)) |->
             Status(IF HostChecks(sys)[i].ok THEN "PASS" ELSE "FAIL",
                    <<HostChecks(sys)[i].item>>)]
  /\ probes' = probes \cup {HostChecks(sys)[i].probe : i \in 1..Len(HostChecks(sys))}
  /\ Advance
  /\ UNCHANGED <<script, sys, mode, root, canWrite, out, acts, start>>
  /\ Recorded

----------------------------------------------------------------------------
(* 4_folder_structure.py: no MODE and no report file; sys is the .env file *)
(* and the directory trees the script can be pointed at                    *)

RequiredOrder == <<"SERVER_ROOT", "PUID", "PGID">>
RequiredKeys == Range(RequiredOrder)

\* a line of the .env file is the sequence of its pieces: <<key, "=", value>>
\* for "key=value"

\* line.strip().startswith("#") or not line.strip()
SkippedLine(l) == l = <<>> \/ l[1] = "#"

\* the loop of load_env(): config[key.strip()] = value.strip() for every
\* line that is no comment and has an "="
RECURSIVE LoadLines(_, _)
LoadLines(lines, config) ==
  IF lines = <<>> THEN config
  ELSE LET l == Head(lines)
       IN LoadLines(Tail(lines),
                    IF SkippedLine(l) \/ "=" \notin Range(l) THEN config
                    ELSE [k \in DOMAIN config \cup {l[1]} |->
                            IF k = l[1] THEN l[3] ELSE config[k]])

\* load_env(env_path), called when the file exists
load_env(env) == LoadLines(env.lines, EmptyDict)

\* Path(CONFIG["SERVER_ROOT"]): the path of an empty string is "."
PathOf(v) == IF v = "" THEN "." ELSE v

SERVER_ROOT(env) == PathOf(load_env(env)["SERVER_ROOT"])
PUID(env) == load_env(env)["PUID"]
PGID(env) == load_env(env)["PGID"]

STRUCTURE == <<"apps", "secrets", "networks", "backups/snapshots",
               "backups/databases", "backups/restore", "scripts",
               "logs/docker">>
Placeholders == {"compose.yaml", "networks/docker-networks.yaml"}

\* chown takes an owner that is a number; a name must be that of an account,
\* and "abc" is none
ChownAccepts(id) == id \in {"0", "1000", "root"}

\* a directory PathOf can name, as the file system has it
NoTree == [exists |-> FALSE, dirs |-> {}, files |-> {}, owner |-> <<>>,
           secrets |-> "none", modes |-> "none"]
EmptyTree == [NoTree EXCEPT !.exists = TRUE, !.owner = <<"root", "root">>,
                            !.modes = "755/644"]
BuiltTree == [exists |-> TRUE, dirs |-> Range(STRUCTURE),
              files |-> Placeholders, owner |-> <<"1000", "1000">>,
              secrets |-> "root 700", modes |-> "775/664"]

FolderSteps == <<"load_env", "setup", "is_root", "make_root", "make_subdirs",
                 "enforce">>
FolderCur == IF pc = 0 THEN "none" ELSE FolderSteps[pc]
FolderNext ==
  /\ pc' = pc + 1
  /\ UNCHANGED <<sub, exit, cause>>

\* sys.exit(1) of load_env(), of the except KeyError and of apply()
FolderExit == 1

\* python3 4_folder_structure.py: the arguments are not looked at
FolderStartRun ==
  /\ pc = 0
  /\ \E r \in BOOLEAN : root' = r
  /\ start' = [sys |-> sys, report |-> report, arg |-> "",
               prevApplied |-> (exit = ExitOk)]
  /\ pc' = 1
  /\ sub' = 0
  /\ exit' = -1
  /\ cause' = "none"
  /\ out' = <<>>
  /\ acts' = <<>>
  /\ probes' = {}
  /\ UNCHANGED <<script, sys, report, mode, canWrite, mine>>

\* CONFIG = load_env(ENV_FILE): without the file, an error and sys.exit(1)
FolderLoadEnv ==
  /\ FolderCur = "load_env"
  /\ IF ~sys.env.exists
     THEN /\ out' = out \o <<<<"Error: .env file not found at ", "../.env">>,
                             <<"Please create it with SERVER_ROOT, PUID, and PGID.">>>>
          /\ Finish(FolderExit, "config")
     ELSE /\ out' = Append(out, <<"Loading config from ", "../.env", "...">>)
          /\ FolderNext
  /\ UNCHANGED <<script, sys, report, mode, root, canWrite, acts, probes,
                 start, mine>>

\* the try block of the module: the first required key CONFIG lacks raises
\* KeyError, which ends the run; the values are taken as they are
FolderSetup ==
  /\ FolderCur = "setup"
  /\ LET missing == SelectSeq(RequiredOrder,
                              LAMBDA k : k \notin DOMAIN load_env(sys.env))
     IN IF missing # <<>>
        THEN /\ out' = Append(out, <<"Error: Missing '", Head(missing),
                                     "' in .env file.">>)
             /\ Finish(FolderExit, "config")
        ELSE /\ out' = out
             /\ FolderNext
  /\ UNCHANGED <<script, sys, report, mode, root, canWrite, acts, probes,
                 start, mine>>

\* if os.geteuid() != 0: sys.exit(1); then the two lines naming the target
FolderIsRoot ==
  /\ FolderCur = "is_root"
  /\ IF ~root
     THEN /\ out' = Append(out, <<"Must run as root to set permissions (chown/chmod)">>)
          /\ Finish(FolderExit, "privilege")
     ELSE /\ out' = out \o <<<<"=== Target: ", SERVER_ROOT(sys.env), " ===">>,
                             <<"=== Owner:  User ", PUID(sys.env), " / Group ",
                               PGID(sys.env), " ===">>>>
          /\ FolderNext
  /\ UNCHANGED <<script, sys, report, mode, root, canWrite, acts, probes,
                 start, mine>>

\* if not SERVER_ROOT.exists(): SERVER_ROOT.mkdir(parents=True, exist_ok=True)
FolderMakeRoot ==
  /\ FolderCur = "make_root"
  /\ LET t == SERVER_ROOT(sys.env)
     IN /\ probes' = probes \cup {<<"exists ", t>>}
        /\ IF sys.tree[t].exists
           THEN /\ UNCHANGED <<sys, acts, out>>
                /\ FolderNext
           ELSE \E ok \in BOOLEAN :
                  /\ acts' = Append(acts, Act(<<"mkdir ", t>>, "NonCompliant", ok))
                  /\ IF ok
                     THEN /\ sys' = [sys EXCEPT !.tree[t] = EmptyTree]
                          /\ out' = Append(out, <<"Created root: ", t>>)
                          /\ FolderNext
                     ELSE /\ sys' = sys
                          /\ out' = Append(out, <<"Failed to create root: ", t>>)
                          /\ Finish(FolderExit, "action")
  /\ UNCHANGED <<script, report, mode, root, canWrite, start, mine>>

\* the loop over STRUCTURE and the two touch() calls
FolderMakeSubdirs ==
  /\ FolderCur = "make_subdirs"
  /\ LET t == SERVER_ROOT(sys.env)
         new == SelectSeq(STRUCTURE, LAMBDA f : f \notin sys.tree[t].dirs)
     IN /\ sys' = [sys EXCEPT !.tree[t].dirs = Range(STRUCTURE),
                              !.tree[t].files = Placeholders]
        /\ acts' = acts
             \o [i \in 1..Len(new) |->
                   Act(<<"mkdir ", t, "/", new[i]>>, "NonCompliant", TRUE)]
             \o <<Act(<<"touch ", t, "/", "compose.yaml">>, "none", TRUE),
                  Act(<<"touch ", t, "/", "networks/docker-networks.yaml">>,
                      "none", TRUE)>>
        /\ out' = out \o [i \in 1..Len(STRUCTURE) |->
                            <<"Verified/Created: ", STRUCTURE[i]>>]
  /\ FolderNext
  /\ UNCHANGED <<script, report, mode, root, canWrite, probes, start, mine>>

\* run(cmd) is os.system(cmd): the status of the command is dropped.  chown
\* -R of the tree, chown and chmod of secrets, the two find ... chmod
FolderEnforce ==
  /\ FolderCur = "enforce"
  /\ LET t == SERVER_ROOT(sys.env)
         u == PUID(sys.env)
         g == PGID(sys.env)
         owned == ChownAccepts(u) /\ ChownAccepts(g)
     IN /\ sys' = [sys EXCEPT !.tree[t].owner = IF owned THEN <<u, g>> ELSE @,
                              !.tree[t].secrets = "root 700",
                              !.tree[t].modes = "775/664"]
        /\ acts' = acts \o
             <<Act(<<"chown -R ", u, ":", g, " ", t>>, "none", owned),
               Act(<<"chown -R root:root ", t, "/secrets">>, "none", TRUE),
               Act(<<"chmod -R 700 ", t, "/secrets">>, "none", TRUE),
               Act(<<"find ", t, " -type d -not -path '*/secrets*' -exec chmod 775 {} +">>,
                   "none", TRUE),
               Act(<<"find ", t, " -type f -not -path '*/secrets*' -exec chmod 664 {} +">>,
                   "none", TRUE)>>
        /\ out' = out \o <<<<"Secured: ", t, "/secrets", " (Root only)">>,
                           <<"Folder Structure Enforced based on .env configuration.">>>>
  /\ Finish(ExitOk, "none")
  /\ UNCHANGED <<script, report, mode, root, canWrite, probes, start, mine>>

----------------------------------------------------------------------------
(* Initial machines *)

HostItems == HostFacts \cup ManagedFiles

HostConsistent(S) ==
  /\ ("override_conf" \in S => "override_dir" \in S)
  /\ ("member" \in S => {"user", "group"} \subseteq S)
  /\ ("ufw_active" \in S => "ufw_installed" \in S)

InitHostItems ==
  {S \in SUBSET HostItems :
     /\ HostConsistent(S)
     /\ \/ Cardinality(S) <= MaxHostOff
        \/ Cardinality(HostItems \ S) <= MaxHostOff}

ScalarKeys == DesiredKeys \ {"log-opts"}

\* the log-opts values tried: absent, exact, a wrong size, an extra option,
\* one option only
InitLogOpts ==
  {[o \in D |-> IF o = "max-size" THEN sz
                ELSE IF o = "max-file" THEN "3" ELSE "true"] :
     D \in {{"max-size", "max-file"}, {"max-size", "max-file", "compress"},
            {"max-size"}},
     sz \in {"10m", "50m"}}

InitConfigs ==
  {[k \in (ScalarKeys \ gone) \cup lo \cup dbg |->
      IF k = "log-opts" THEN Dict(opts)
      ELSE IF k = "debug" THEN Scalar("True")
      ELSE IF k \in wrong THEN Scalar("other")
      ELSE DESIRED_DAEMON_CONFIG[k]] :
     gone \in SUBSET ScalarKeys, wrong \in SUBSET ScalarKeys,
     lo \in {{}, {"log-opts"}}, dbg \in {{}, {"debug"}},
     opts \in InitLogOpts}

JsonOff(cfg) ==
  Cardinality({k \in ScalarKeys : PyGet(cfg, k) # DESIRED_DAEMON_CONFIG[k]})

InitJson ==
  {[st |-> "absent", cfg |-> EmptyDict], [st |-> "malformed", cfg |-> EmptyDict]}
  \cup {[st |-> "ok", cfg |-> c] : c \in {c \in InitConfigs : JsonOff(c) <= MaxJsonOff}}

NoHost == [host |-> {}, files |-> [f \in ManagedFiles |-> 0]]
NoDocker == [json |-> [st |-> "absent", cfg |-> EmptyDict], etcDocker |-> FALSE,
             dockerUp |-> FALSE, stale |-> FALSE,
             nets |-> [n \in NetNames |-> "absent"], running |-> {}]

Machine(h, d) ==
  [host |-> h.host, files |-> h.files, json |-> d.json,
   etcDocker |-> d.etcDocker, dockerUp |-> d.dockerUp, stale |-> d.stale,
   nets |-> d.nets, running |-> d.running]

InitMachines(s) ==
  CASE s = "host" ->
         {Machine([host |-> S \cap HostFacts,
                   files |-> [f \in ManagedFiles |-> IF f \in S THEN 1 ELSE 0]],
                  NoDocker) : S \in InitHostItems}
    [] s = "daemon" ->
         {Machine(NoHost, [NoDocker EXCEPT !.json = j, !.etcDocker = e,
                                           !.dockerUp = u, !.running = r]) :
            j \in InitJson, e \in BOOLEAN, u \in BOOLEAN,
            r \in SUBSET ContainerNames}
    [] s = "network" ->
         {Machine(NoHost, [NoDocker EXCEPT !.nets = n, !.dockerUp = u,
                                           !.running = r]) :
            n \in [NetNames -> {"absent", "internal", "external"}],
            u \in BOOLEAN, r \in SUBSET ContainerNames}

\* a machine that can exist: daemon.json lives in /etc/docker, containers
\* run only under a running daemon
MachineOk(m) ==
  /\ (m.json.st # "absent" => m.etcDocker)
  /\ (~m.dockerUp => m.running = {})

Init ==
  /\ script \in Scripts
  /\ sys \in {m \in InitMachines(script) : MachineOk(m)}
  /\ report = <<>>
  /\ mode = "--apply"
  /\ root = FALSE
  /\ canWrite = FALSE
  /\ pc = 0
  /\ sub = 0
  /\ exit = -1
  /\ cause = "none"
  /\ out = <<>>
  /\ acts = <<>>
  /\ probes = {}
  /\ start = [sys |-> sys, report |-> report, arg |-> "",
              prevApplied |-> FALSE]
  /\ mine = <<>>

Next ==
  \/ StartRun
  \/ MainUsage
  \/ RequireRoot
  \/ MainOpenReport
  \/ HostIsRoot
  \/ HostHeader
  \/ HostRun
  \/ HostRemapUser
  \/ HostAppendIfMissing
  \/ HostMkdir
  \/ HostWriteOverride
  \/ HostUfwEnable
  \/ HostApplyComplete
  \/ HostAudit
  \/ ApplyDaemonConfig
  \/ AuditDaemonConfig
  \/ AuditRunningContainers
  \/ AuditRootDockerAccess
  \/ ApplyNetworksHeader
  \/ ApplyNetworksIter
  \/ NetworkCheck
  \/ AuditContainerNetworks

Spec == Init /\ [][Next]_vars

----------------------------------------------------------------------------
(* Runs of 4_folder_structure.py *)

\* the values tried for a key: one the script is meant for, one it is not
EnvValues(key) ==
  IF key = "SERVER_ROOT" THEN {"/srv/server", ""} ELSE {"1000", "abc"}

\* the line of a key in the .env file: none, an assignment, or a line
\* without "="
EnvLines(key) ==
  {<<>>} \cup {<<<<key, "=", v>>>> : v \in EnvValues(key)}
         \cup {<<<<key, " ", "1000">>>>}

InitEnv ==
  {[exists |-> FALSE, lines |-> <<>>]}
  \cup {[exists |-> TRUE, lines |-> <<<<"#", " homelab">>>> \o a \o b \o c] :
          a \in EnvLines("SERVER_ROOT"), b \in EnvLines("PUID"),
          c \in EnvLines("PGID")}

\* the current directory is there; the server root is not, is empty, or is
\* as a run of the script left it
InitTrees ==
  {[p \in {"/srv/server", "."} |-> IF p = "." THEN EmptyTree ELSE t] :
     t \in {NoTree, EmptyTree, BuiltTree}}

InitFolders ==
  /\ script = "folders"
  /\ sys \in {[env |-> f, tree |-> t] : f \in InitEnv, t \in InitTrees}
  /\ report = <<>>
  /\ mode = "none"
  /\ root = FALSE
  /\ canWrite = FALSE
  /\ pc = 0
  /\ sub = 0
  /\ exit = -1
  /\ cause = "none"
  /\ out = <<>>
  /\ acts = <<>>
  /\ probes = {}
  /\ start = [sys |-> sys, report |-> report, arg |-> "",
              prevApplied |-> FALSE]
  /\ mine = <<>>

NextFolders ==
  \/ FolderStartRun
  \/ FolderLoadEnv
  \/ FolderSetup
  \/ FolderIsRoot
  \/ FolderMakeRoot
  \/ FolderMakeSubdirs
  \/ FolderEnforce

SpecFolders == InitFolders /\ [][NextFolders]_vars

----------------------------------------------------------------------------
(* Vocabulary of the properties *)

\* the last run has ended and no new one has started
Ended == pc = 0 /\ exit # -1

IsStatus(l, st) == Len(l) >= 3 /\ l[1] = "[" /\ l[2] = st
IsVerdict(l) == IsStatus(l, "PASS") \/ IsStatus(l, "FAIL")
VerdictLines(r) == SelectSeq(r, IsVerdict)

\* every governed fact of the script's domain is in its desired state
AlreadyCompliant(s) ==
  CASE script = "host" ->
         s.host = HostFacts /\ \A f \in ManagedFiles : file_contains(s, f)
    [] script = "daemon" ->
         s.json.st = "ok" /\ daemon_config_compliant(s.json.cfg)
    [] script = "network" ->
         /\ s.dockerUp
         /\ \A n \in NetNames :
              network_exists(s, n) /\ InspectInternal(s, n) = NETWORKS[n].internal

\* the PASS/FAIL lines a --check run reports on machine s
CheckVerdicts(s) ==
  CASE script = "host" ->
         [i \in 1..Len(HostChecks(s)) |->
            Status(IF HostChecks(s)[i].ok THEN "PASS" ELSE "FAIL",
                   <<HostChecks(s)[i].item>>)]
    [] script = "daemon" ->
         [i \in 1..Len(DesiredOrder) |->
            Status(IF PyGet(load_current_daemon_config(s), DesiredOrder[i])
                        = DESIRED_DAEMON_CONFIG[DesiredOrder[i]]
                   THEN "PASS" ELSE "FAIL", <<DesiredOrder[i]>>)]
         \o Flatten([i \in 1..Len(DockerPs(s)) |->
                       ContainerAuditLines(DockerPs(s)[i])])
    [] script = "network" ->
         [i \in 1..Len(NetOrder) |-> CheckLine(s, NetOrder[i])]

\* the header that opens the last section of a complete report
FinalSection ==
  CASE script = "host" -> HeaderLines("AUDIT RESULTS")[2]
    [] script = "daemon" -> HeaderLines("ROOT DOCKER ACCESS AUDIT")[2]
    [] script = "network" -> HeaderLines("CONTAINER NETWORK AUDIT")[2]

\* the calls and file operations an --apply run makes on machine s when all
\* of them succeed, named as a dry run would describe them (without a
\* Docker daemon apply_networks() gets no further than its first network)
ApplyPlan(s) ==
  CASE script = "host" ->
         {st.arg : st \in {x \in Range(HostApplySteps) : x.op = "run"}}
         \cup (IF "remap" \notin s.host THEN {<<ADDUSER>>} ELSE {})
         \cup {<<"Append '", ManagedLine(f), "' to ", f>> :
                 f \in {g \in ManagedFiles : ~file_contains(s, g)}}
         \cup (IF "override_dir" \notin s.host
               THEN {<<"mkdir ", "/etc/systemd/system/docker.service.d">>}
               ELSE {})
         \cup {<<"write ", "/etc/systemd/system/docker.service.d/override.conf">>}
    [] script = "daemon" ->
         (IF s.etcDocker THEN {} ELSE {<<"mkdir ", "/etc/docker">>})
         \cup (IF NeedsUpdate(load_current_daemon_config(s))
               THEN {<<"write ", "/etc/docker/daemon.json">>,
                     <<"systemctl restart docker">>}
               ELSE {})
    [] script = "network" ->
         IF s.dockerUp
         THEN {CreateCmd(n) : n \in {x \in NetNames : ~network_exists(s, x)}}
         ELSE {CreateCmd(NetOrder[1])}

----------------------------------------------------------------------------
(* Claims *)

\* C1: in a --check run of any of the three scripts, from any machine, no
\* mutating action is executed and nothing but the report file changes.
C1_CheckNeverMutates ==
  mode = "--check" => (acts = <<>> /\ sys = start.sys)

\* a --check run that went through to the end on a machine with a deviation
C1_Witness ==
  /\ Ended /\ mode = "--check" /\ cause = "none"
  /\ \E i \in 1..Len(report) : IsStatus(report[i], "FAIL")
  /\ ~AlreadyCompliant(sys)

\* C2: in a --dry-run run of any of the three scripts no mutating action
\* takes effect: nothing is executed and nothing but the report file changes.
C2_DryRunNoEffect ==
  mode = "--dry-run" => (acts = <<>> /\ sys = start.sys)

\* C3: idempotence.  In --apply mode an action is executed only after a probe
\* of its fact found the fact not in its desired state (a probe that failed
\* counts as such here, as it does in the code; C4 is about those), and an
\* --apply run on a machine where every governed fact is compliant executes
\* no action and reports the verdicts a --check run reports there.
C3_Idempotence ==
  mode = "--apply" =>
    /\ \A i \in 1..Len(acts) : acts[i].probed \in {"NonCompliant", "Unknown"}
    /\ AlreadyCompliant(start.sys) => acts = <<>>
    /\ (AlreadyCompliant(start.sys) /\ Ended /\ cause = "none")
         => VerdictLines(report) = CheckVerdicts(start.sys)

\* C4: no action is executed for a fact whose probe failed (as opposed to
\* reporting the fact absent), in any mode.
C4_UnknownNeverEscalates ==
  \A i \in 1..Len(acts) : acts[i].probed # "Unknown"

\* C5: an --apply run in which an action failed still goes through all the
\* remaining facts and ends with the complete audit report.
C5_PartialFailureContained ==
  (mode = "--apply" /\ Ended /\ \E i \in 1..Len(acts) : ~acts[i].ok)
    => (cause = "none" /\ FinalSection \in Range(report))

\* C6: no run is ended by a failing probe (an unparsable daemon.json, an
\* empty `docker network inspect` output).
C6_ProbeFailureContained ==
  cause # "probe"

C8_DryRunMatchesApply ==
  (mode = "--dry-run" /\ Ended /\ cause = "none")
    => Range(out) = ApplyPlan(start.sys)

\* C9: a run that ends with the privilege error has probed nothing, executed
\* and described no action, changed nothing on the machine and recorded no
\* line through report(): the report file is as the run found it, or holds
\* the title line alone.
C9_PrivilegeAbortsFirst ==
  cause = "privilege" =>
    /\ probes = {}
    /\ acts = <<>>
    /\ out = <<>>
    /\ sys = start.sys
    /\ report \in {start.report, <<ReportTitle(script)>>}

\* an --apply run of the host script without root, on a machine that is not
\* compliant and has the report of an earlier run
C9_Witness ==
  /\ Ended /\ cause = "privilege" /\ script = "host" /\ mode = "--apply"
  /\ Len(start.report) > 1
  /\ ~AlreadyCompliant(sys)

\* C10: the exit status of a privilege abort differs from the exit status of
\* a usage error and from that of every other abort.
C10_PrivilegeExitDistinct ==
  cause = "privilege" => (exit # UsageExit /\ exit # UncaughtExit)

\* a run is in progress or has ended (as opposed to: none was started yet)
Started == pc # 0 \/ exit # -1

\* C11: a run whose argument is present and is none of --apply, --check,
\* --dry-run ends with the usage error and a nonzero status, the report file
\* as the run found it (neither truncated nor written), nothing probed,
\* nothing executed or described and nothing changed; a run without an
\* argument runs in --apply mode.
C11_UsageAbortsFirst ==
  /\ (Ended /\ start.arg \notin ValidModes \cup {""}) => cause = "usage"
  /\ cause = "usage" =>
       /\ start.arg \notin ValidModes \cup {""}
       /\ exit # ExitOk
       /\ report = start.report
       /\ mine = <<>>
       /\ probes = {}
       /\ acts = <<>>
       /\ out = <<>>
       /\ sys = start.sys
  /\ (Started /\ start.arg = "") => mode = "--apply"

\* a run with an unknown argument has ended, on a machine that is not
\* compliant and holds the report of an earlier run
C11_Witness ==
  /\ Ended /\ start.arg = "--bogus" /\ cause = "usage"
  /\ Len(report) > 1
  /\ ~AlreadyCompliant(sys)

\* r is s, or s with lines appended
IsPrefix(s, r) == Len(s) <= Len(r) /\ SubSeq(r, 1, Len(s)) = s

\* C12 as claimed: once a run that got past its usage check has ended, the
\* report file holds the lines of that run and nothing else (a run that
\* could not open the report file aside).
C12_ReportOfLastValidRun ==
  (Ended /\ mode \in ValidModes /\ cause # "report") => report = mine

\* C12 as amended: the report file holds the lines of the most recent run
\* that opened it, the title line first: a run that has opened the report
\* file finds in it exactly the lines it has written itself, in the order it
\* wrote them, and a run that has not (it ended with the usage error, with
\* the privilege error of require_root(), or could not open the file) leaves
\* the file as it found it; every step of a run other than the opening only
\* appends to the file.
C12_ReportOfLastOpeningRun ==
  /\ [](Started =>
          IF mine # <<>>
          THEN report = mine /\ report[1] = ReportTitle(script)
          ELSE report = start.report)
  /\ [][\/ IsPrefix(report, report')
        \/ Cur = "open_report" /\ report' = <<ReportTitle(script)>>]_vars

\* a run went through to the end over the different report of an earlier run
C12_Witness ==
  /\ Ended /\ cause = "none"
  /\ Len(start.report) > 1 /\ start.report # report
  /\ Len(report) > 3 /\ report = mine

StatusWords == {"PASS", "FAIL", "WARN", "INFO", "OK"}
IsHeader(l) == Len(l) = 3 /\ l[1] = "=== " /\ l[3] = " ==="
IsStatusLine(l) ==
  Len(l) > 3 /\ l[1] = "[" /\ l[2] \in StatusWords /\ l[3] = "] "

\* C13: every line of the report file, the leading title line of the run and
\* the empty line before a section header aside, is a section header
\* `=== TITLE ===` or a status line `[STATUS] description` with STATUS one of
\* PASS, FAIL, WARN, INFO, OK.
C13_ReportLineFormat ==
  \A i \in 1..Len(report) :
    \/ i = 1 /\ report[i] = ReportTitle(script)
    \/ report[i] = Blank /\ i < Len(report) /\ IsHeader(report[i + 1])
    \/ IsHeader(report[i])
    \/ IsStatusLine(report[i])

\* additive-tolerant equality: every key of the expected value is in the
\* actual value with an equal value
TolerantEqual(actual, expected) ==
  IF expected.s = "dict"
  THEN /\ actual.s = "dict"
       /\ \A o \in DOMAIN expected.d :
            o \in DOMAIN actual.d /\ actual.d[o] = expected.d[o]
  ELSE actual = expected

\* C14: the Docker daemon configuration audit of a run that went through to
\* the end reports PASS for a desired key exactly when the key is in
\* daemon.json with a value equal to the desired one up to extra keys inside
\* the value (log-opts), and daemon_config_compliant() says compliant exactly
\* when that is so for every desired key.
C14_AdditiveTolerant ==
  (script = "daemon" /\ Ended /\ cause = "none") =>
    LET current == load_current_daemon_config(sys)
    IN /\ \A k \in DesiredKeys :
            Status("PASS", <<k>>) \in Range(mine)
              <=> TolerantEqual(PyGet(current, k), DESIRED_DAEMON_CONFIG[k])
       /\ daemon_config_compliant(current)
            <=> \A k \in DesiredKeys :
                  TolerantEqual(PyGet(current, k), DESIRED_DAEMON_CONFIG[k])

\* C15: when an --apply run of the Docker daemon script has written
\* daemon.json, every key the file had before that is not a desired setting
\* is in it with the same value, and so is every option that log-opts had
\* other than max-size and max-file.
C15_UnrelatedKeysKept ==
  (script = "daemon" /\ \E i \in 1..Len(acts) : acts[i].cmd = DaemonJsonWrite) =>
    LET old == load_current_daemon_config(start.sys)
        new == sys.json.cfg
        opts(c) == IF PyGet(c, "log-opts").s = "dict"
                   THEN PyGet(c, "log-opts").d ELSE EmptyDict
    IN /\ \A k \in DOMAIN old \ DesiredKeys :
            k \in DOMAIN new /\ new[k] = old[k]
       /\ \A o \in DOMAIN opts(old) \ DOMAIN DESIRED_DAEMON_CONFIG["log-opts"].d :
            o \in DOMAIN opts(new) /\ opts(new)[o] = opts(old)[o]

\* the create command the declaration of network n asks for
DeclaredCreate(n) ==
  IF n = "frontend_net" THEN <<"docker network create ", "", n>>
  ELSE <<"docker network create ", "--internal ", n>>

\* C16: the only mutating commands the Docker network script executes, in
\* any mode, are `docker network create` commands for declared networks
\* whose probe had not found them, with --internal exactly for the networks
\* declared internal; no network that existed is gone or changed, no
\* container is stopped, and an --apply run that follows an --apply run that
\* went through to the end executes no create.
C16_NetworkOnlyCreates ==
  script = "network" =>
    /\ \A i \in 1..Len(acts) :
         /\ \E n \in NetNames : acts[i].cmd = DeclaredCreate(n)
         /\ acts[i].probed \in {"NonCompliant", "Unknown"}
    /\ mode # "--apply" => acts = <<>>
    /\ \A n \in NetNames :
         start.sys.nets[n] # "absent" => sys.nets[n] = start.sys.nets[n]
    /\ sys.running = start.sys.running
    /\ sys.dockerUp = start.sys.dockerUp
    /\ (mode = "--apply" /\ start.prevApplied) => acts = <<>>

\* an --apply run went through to the end without a create, after an
\* --apply run that had created a network
C16_Witness ==
  /\ script = "network" /\ mode = "--apply" /\ Ended /\ cause = "none"
  /\ start.prevApplied
  /\ \E i \in 1..Len(start.report) :
       /\ IsStatus(start.report[i], "OK")
       /\ start.report[i][4] = "Network created: "
  /\ acts = <<>>

\* C17: an --apply run of the Docker daemon script that went through to the
\* end has reported PASS for every desired key, and an --apply run that
\* follows it writes no daemon.json, restarts no daemon and, when it goes
\* through to the end, has reported the configuration already compliant.
C17_DaemonConverges ==
  (script = "daemon" /\ mode = "--apply") =>
    /\ (Ended /\ cause = "none") =>
         \A k \in DesiredKeys : Status("PASS", <<k>>) \in Range(mine)
    /\ start.prevApplied =>
         /\ \A i \in 1..Len(acts) :
              acts[i].cmd \notin {DaemonJsonWrite, DockerRestart}
         /\ (Ended /\ cause = "none") => CompliantLine \in Range(mine)

\* an --apply run found the configuration compliant after an --apply run
\* that had rewritten it
C17_Witness ==
  /\ script = "daemon" /\ mode = "--apply" /\ Ended /\ cause = "none"
  /\ start.prevApplied
  /\ AppliedLine \in Range(start.report)
  /\ CompliantLine \in Range(mine)
  /\ acts = <<>>

\* what the keys are for: a directory given by its absolute path, and the
\* numbers of a user and of a group
WellFormed(key, value) ==
  IF key = "SERVER_ROOT" THEN value \in {"/srv/server"}
  ELSE value \in {"0", "1000"}

\* the .env file is missing, or lacks a required key, or gives one a value
\* that is malformed
ConfigProblem(env) ==
  \/ ~env.exists
  \/ \E k \in RequiredKeys :
       \/ k \notin DOMAIN load_env(env)
       \/ ~WellFormed(k, load_env(env)[k])

\* C18: a run of the folder structure script that finds the .env file
\* missing, or a required key missing or malformed in it, probes nothing in
\* the file system, changes nothing, and ends with a nonzero status and a
\* message: the message of the configuration error (or, for a run without
\* root that got as far as apply(), the message of the privilege error).
C18_ConfigErrorFirst ==
  (script = "folders" /\ Started /\ ConfigProblem(start.sys.env)) =>
    /\ probes = {}
    /\ acts = <<>>
    /\ sys = start.sys
    /\ Ended => /\ exit # ExitOk
                /\ out # <<>>
                /\ cause \in {"config", "privilege"}
                /\ root => cause = "config"

\* C19: whenever the host script has executed `ufw --force enable`, its probe
\* of the firewall in the same run had not found it active; and a run that
\* started with the firewall active never executes it.
C19_UfwEnableGuarded ==
  script = "host" =>
    \A i \in 1..Len(acts) :
      acts[i].cmd = <<UFW_ENABLE>> =>
        /\ UfwProbe \in probes
        /\ acts[i].probed = "NonCompliant"
        /\ "ufw_active" \notin start.sys.host

\* an --apply run went through to the end on a host whose firewall was
\* active; it probed the firewall and did not enable it
C19_Witness ==
  /\ script = "host" /\ mode = "--apply" /\ Ended /\ cause = "none"
  /\ "ufw_active" \in start.sys.host
  /\ UfwProbe \in probes
  /\ \A i \in 1..Len(acts) : acts[i].cmd # <<UFW_ENABLE>>
  /\ Len(acts) > 0

\* C20: when an --apply run of the Docker daemon script has reported the
\* configuration "applied" or "already compliant", the daemon was restarted
\* successfully after the last write of daemon.json by the script; and an
\* --apply run that goes through to the end on a machine where the restart
\* after the last write had failed has attempted the restart.
C20_RestartFollowsWrite ==
  (script = "daemon" /\ mode = "--apply") =>
    /\ (AppliedLine \in Range(mine) \/ CompliantLine \in Range(mine))
         => ~sys.stale
    /\ (start.sys.stale /\ Ended /\ cause = "none")
         => \E i \in 1..Len(acts) : acts[i].cmd = DockerRestart

\* C21: for a declared network that exists when a run of the Docker network
\* script starts, whatever its Internal flag, the run executes no mutating
\* command and leaves the network as it is; and an --apply run that went
\* through to the end has reported FAIL for it when its Internal flag
\* differs from the declaration.
C21_NeverRepairs ==
  script = "network" =>
    \A n \in NetNames :
      start.sys.nets[n] # "absent" =>
        /\ \A i \in 1..Len(acts) : acts[i].cmd[3] # n
        /\ sys.nets[n] = start.sys.nets[n]
        /\ (/\ mode = "--apply" /\ Ended /\ cause = "none"
            /\ InspectInternal(start.sys, n) # NETWORKS[n].internal)
             => Status("FAIL", <<n, " internal=",
                                 PyBool(InspectInternal(start.sys, n)),
                                 " (expected ", PyBool(NETWORKS[n].internal),
                                 ")">>) \in Range(mine)

\* the appends to file f that the current run has executed
Appends(f) == {i \in 1..Len(acts) : acts[i].cmd = <<"append ", f>>}

====
